---- MODULE Spec2Model ----
(***************************************************************************)
(* Inventory ledger of the stock management API (src/server.js).           *)
(*                                                                         *)
(* The model covers the PostgreSQL tables products, inventory and          *)
(* stock_movements, the pg connection pool, and the handlers that write    *)
(* the ledger: PUT /api/inventory/:productId/adjust (one action per await  *)
(* of the handler, so that concurrent requests interleave at the storage   *)
(* calls), POST /api/products and DELETE /api/products/:id; further the    *)
(* categories table, the handlers that write product and category          *)
(* metadata, and the read queries.                                         *)
(*                                                                         *)
(* Storage semantics are PostgreSQL's defaults: READ COMMITTED isolation,  *)
(* a plain SELECT takes no lock, an UPDATE or DELETE waits for the row     *)
(* lock of another open transaction and then acts on the committed row.    *)
(***************************************************************************)
EXTENDS Integers, Sequences, FiniteSets, TLC

\* ------------------------------------------------------------------ bounds
MaxFaults == 1          \* storage calls that fail for reasons outside the handler
MaxPending == 1         \* metadata writes pending in one transaction left open
MaxClock == 3           \* last reading of the database clock

Requests == {"r1", "r2"}            \* the adjust requests, each one run of the handler
Conns == {"c1", "c2"}               \* clients of the pool
ProductIds == {1}                   \* ids the products sequence hands out
CatalogProducts == {1, 2}           \* the products of the catalog scenario
RequestedProducts == {1, 2, 3}      \* product ids named by its requests (3 never existed)
ProductSlots == ProductIds \cup CatalogProducts
CategoryIds == {1}                  \* ids the categories sequence hands out
Names == {"a", "b"}                 \* values of a name column

\* ------------------------------------------------------- JavaScript values
\* A value of req.body: undefined, a number, NaN, or a string that is no number.
Undefined == [t |-> "undefined", v |-> 0]
NaN == [t |-> "NaN", v |-> 0]
Text == [t |-> "string", v |-> 0]
Num(n) == [t |-> "number", v |-> n]

\* !x
Falsy(x) == \/ x.t = "undefined"
            \/ x.t = "NaN"
            \/ (x.t = "number" /\ x.v = 0)

\* parseInt(x)
ParseInt(x) == IF x.t = "number" THEN Num(x.v) ELSE NaN

\* a + b and a - b on numbers
JsAdd(a, b) == IF a.t = "number" /\ b.t = "number" THEN Num(a.v + b.v) ELSE NaN
JsSub(a, b) == IF a.t = "number" /\ b.t = "number" THEN Num(a.v - b.v) ELSE NaN
\* a < 0
JsNegative(a) == a.t = "number" /\ a.v < 0

\* whether the driver's text form of x is accepted for an INTEGER column
PgInteger(x) == x.t = "number"

\* movement_type of req.body: a string, or undefined
NoType == "undefined"
MovementTypes == {"IN", "OUT", "ADJUSTMENT"}
MovementTypeInputs == MovementTypes \cup {"TRANSFER", NoType}
QuantityInputs == {Undefined, Text, Num(-2), Num(0), Num(3)}
InitialQuantities == {-1, 0, 4}
MinStockLevels == {2}

\* ------------------------------------------------------------------- state
VARIABLES
  products,          \* ids of the committed rows of products
  inventory,         \* committed rows of inventory; updates is a history field, the
                     \* number of UPDATE statements committed on the row
  stock_movements,   \* committed rows of stock_movements, in commit order
  products_id_seq,   \* next value of the SERIAL sequence of products.id
  conn,              \* per pool client: checked out?, open transaction and its pending writes
  pc,                \* per request: the await the adjust handler is at
  req,               \* per request: productId, quantity, movement_type
  client,            \* per request: the client from pool.connect()
  currentInventory,  \* per request: quantity of inventoryResult.rows[0]
  newQuantity,       \* per request: newQuantity
  error,             \* per request: message of the error thrown in the inner try
  response,          \* per request: the response sent
  faults,            \* storage faults injected so far
  stock_movements_id_seq,  \* next value of the SERIAL sequence of stock_movements.id
  product_fields,    \* per product id: name and category_id of the committed row
  categories,        \* committed rows of categories
  categories_id_seq, \* next value of the SERIAL sequence of categories.id
  now                \* the reading of the database clock

vars == <<products, inventory, stock_movements, products_id_seq, conn, pc, req,
          client, currentInventory, newQuantity, error, response, faults,
          stock_movements_id_seq, product_fields, categories, categories_id_seq,
          now>>

db == <<products, inventory, stock_movements>>
catalog == <<product_fields, categories>>
elsewhere == <<categories_id_seq, now>>   \* what no handler of the ledger writes
locals == <<client, currentInventory, newQuantity, error>>

NoClient == "none"
NoResponse == [status |-> 0, error |-> "", old_quantity |-> 0, new_quantity |-> 0]
NoReq == [productId |-> 0, quantity |-> Undefined, movement_type |-> NoType]
\* A client with no transaction: began is the clock reading at which its
\* transaction started, meta the writes to products and categories pending in it.
FreshConn == [busy |-> FALSE, inTxn |-> FALSE, del |-> {}, upd |-> {}, ins |-> <<>>,
              began |-> 0, meta |-> <<>>]

\* NULL in category_id, and the columns of an absent products row.
Null == 0
NoFields == [name |-> "", category_id |-> Null]

StorageMessage == "Connection terminated unexpectedly"

\* ---------------------------------------------------------------- storage
\* Rows of inventory that a statement run on client c sees for product p:
\* the committed rows, less those of products c's open transaction deleted.
\* (SELECT * FROM inventory WHERE product_id = $1)
SelectInventory(c, p) ==
  {r \in inventory : r.product_id = p /\ p \notin conn[c].del}

\* Products a statement run on client c sees.
VisibleProducts(c) == products \ conn[c].del

\* Another open transaction holds the row lock of product p's inventory row
\* (it updated the row, or deleted the product, which cascades to the row).
RowLockedByOther(c, p) ==
  \E o \in Conns \ {c} :
    \/ p \in conn[o].del
    \/ \E u \in conn[o].upd : u.product_id = p

\* Another open transaction deleted the products row that an insert into
\* stock_movements has to reference (the foreign-key check waits for it).
DeletePendingElsewhere(c, p) == \E o \in Conns \ {c} : p \in conn[o].del

\* Another open transaction inserted a movement for p: it holds a key-share
\* lock on the products row, which a DELETE of the product waits for.
ReferencedByOther(c, p) ==
  \E o \in Conns \ {c} : \E i \in 1..Len(conn[o].ins) : conn[o].ins[i].product_id = p

\* The tables after COMMIT on client c: its deletes (with ON DELETE CASCADE),
\* its update of inventory and its inserts into stock_movements, all at once.
CommitProducts(c) == products \ conn[c].del
\* Mutant: the UPDATE has no WHERE clause, it sets the quantity of every row.
CommitInventory_allRows(c) ==
  {IF conn[c].upd # {}
     THEN LET u == CHOOSE x \in conn[c].upd : TRUE
          IN [r EXCEPT !.quantity = u.quantity, !.updates = @ + 1]
     ELSE r
   : r \in {x \in inventory : x.product_id \notin conn[c].del}}

CommitInventory(c) ==
  {IF \E u \in conn[c].upd : u.product_id = r.product_id
     THEN LET u == CHOOSE x \in conn[c].upd : x.product_id = r.product_id
          IN [r EXCEPT !.quantity = u.quantity, !.updates = @ + 1]
     ELSE r
   : r \in {x \in inventory : x.product_id \notin conn[c].del}}
CommitMovements(c) ==
  SelectSeq(stock_movements, LAMBDA m : m.product_id \notin conn[c].del) \o conn[c].ins

\* A write to products or categories, as it is kept while pending.
MetaOp(op, id, name, category_id) ==
  [op |-> op, id |-> id, name |-> name, category_id |-> category_id]

\* The metadata tables st after the statement op.
ApplyMeta(op, st) ==
  CASE op.op = "UpdateProduct" ->
         [st EXCEPT !.product_fields[op.id] =
            [name |-> op.name, category_id |-> op.category_id]]
    [] op.op = "CreateCategory" ->
         [st EXCEPT !.categories = @ \cup {[id |-> op.id, name |-> op.name]}]
    [] op.op = "UpdateCategory" ->
         [st EXCEPT !.categories =
            {IF r.id = op.id THEN [r EXCEPT !.name = op.name] ELSE r : r \in @}]
    [] op.op = "DeleteCategory" ->
         [st EXCEPT !.categories = {r \in @ : r.id # op.id}]

RECURSIVE ApplyAll(_, _)
ApplyAll(ops, st) ==
  IF ops = <<>> THEN st ELSE ApplyAll(Tail(ops), ApplyMeta(Head(ops), st))

\* The metadata a statement run on client c sees, which is also what COMMIT on
\* c leaves: the committed rows with c's pending writes applied, less the
\* products c's transaction deleted.
MetaView(c) ==
  LET st == ApplyAll(conn[c].meta,
                     [product_fields |-> product_fields, categories |-> categories])
  IN [st EXCEPT !.product_fields =
        [p \in ProductSlots |-> IF p \in conn[c].del THEN NoFields ELSE @[p]]]

CommitFields(c) == MetaView(c).product_fields
CommitCategories(c) == MetaView(c).categories

\* Another open transaction updated the products row p (it holds the row lock).
ProductWrittenByOther(c, p) ==
  \E o \in Conns \ {c} : \E i \in 1..Len(conn[o].meta) :
    conn[o].meta[i].op = "UpdateProduct" /\ conn[o].meta[i].id = p

\* Another open transaction updated or deleted the categories row k.
CategoryWrittenByOther(c, k) ==
  \E o \in Conns \ {c} : \E i \in 1..Len(conn[o].meta) :
    conn[o].meta[i].op \in {"UpdateCategory", "DeleteCategory"} /\ conn[o].meta[i].id = k

\* Another open transaction made a product reference category k: it holds a
\* key-share lock on the categories row, which a DELETE of the category waits for.
CategoryReferencedByOther(c, k) ==
  \E o \in Conns \ {c} : \E i \in 1..Len(conn[o].meta) :
    conn[o].meta[i].op = "UpdateProduct" /\ conn[o].meta[i].category_id = k

\* Mutant: the UPDATE is not undone (as if it had run outside the transaction).
RollbackInventory_keepsUpdate(c) == CommitInventory(c)

\* The tables after ROLLBACK on client c (or after the server drops c's
\* connection): the pending writes are discarded.
RollbackProducts(c) == products
RollbackInventory(c) == inventory
RollbackMovements(c) == stock_movements
RollbackFields(c) == product_fields
RollbackCategories(c) == categories

\* An injected storage fault is possible while the budget lasts.
FaultChoices == IF faults < MaxFaults THEN BOOLEAN ELSE {FALSE}
Inject(fail) == faults' = IF fail THEN faults + 1 ELSE faults

\* -------------------------------------- PUT /api/inventory/:productId/adjust
\* Mutant: the check also rejects quantities that are not positive.
MissingField_nonPositive(q, mt) ==
  Falsy(q) \/ mt = NoType \/ (q.t = "number" /\ q.v <= 0)

\* if (!quantity || !movement_type) return res.status(400)
MissingField(q, mt) == Falsy(q) \/ mt = NoType

\* Mutant: the OUT case lacks the newQuantity < 0 check.
Calculate_noStockCheck(mt, cur, q) ==
  CASE mt = "IN" ->
         [throws |-> FALSE, message |-> "", value |-> JsAdd(Num(cur), ParseInt(q))]
    [] mt = "OUT" ->
         [throws |-> FALSE, message |-> "", value |-> JsSub(Num(cur), ParseInt(q))]
    [] mt = "ADJUSTMENT" ->
         [throws |-> FALSE, message |-> "", value |-> ParseInt(q)]
    [] OTHER ->
         [throws |-> TRUE, message |-> "Invalid movement type", value |-> NaN]

\* Mutant: ADJUSTMENT is applied as a delta instead of an absolute value.
Calculate_adjustmentAsDelta(mt, cur, q) ==
  CASE mt \in {"IN", "ADJUSTMENT"} ->
         [throws |-> FALSE, message |-> "", value |-> JsAdd(Num(cur), ParseInt(q))]
    [] mt = "OUT" ->
         LET n == JsSub(Num(cur), ParseInt(q))
         IN IF JsNegative(n)
              THEN [throws |-> TRUE, message |-> "Insufficient stock", value |-> n]
              ELSE [throws |-> FALSE, message |-> "", value |-> n]
    [] OTHER ->
         [throws |-> TRUE, message |-> "Invalid movement type", value |-> NaN]

\* The switch on movement_type: the new quantity, or the error thrown.
Calculate(mt, cur, q) ==
  CASE mt = "IN" ->
         [throws |-> FALSE, message |-> "", value |-> JsAdd(Num(cur), ParseInt(q))]
    [] mt = "OUT" ->
         LET n == JsSub(Num(cur), ParseInt(q))
         IN IF JsNegative(n)
              THEN [throws |-> TRUE, message |-> "Insufficient stock", value |-> n]
              ELSE [throws |-> FALSE, message |-> "", value |-> n]
    [] mt = "ADJUSTMENT" ->
         [throws |-> FALSE, message |-> "", value |-> ParseInt(q)]
    [] OTHER ->
         [throws |-> TRUE, message |-> "Invalid movement type", value |-> NaN]

\* Mutant: the 404 return is missing, rows[0] is undefined and the handler
\* ends in the outer catch.
Respond_notFoundAsError(h, status, message, old, new) ==
  response' = [response EXCEPT ![h] =
     [status |-> IF status = 404 THEN 500 ELSE status, error |-> message,
      old_quantity |-> old, new_quantity |-> new]]

\* Mutant: the 404 branch returns without sending a response.
Respond_notFoundSilent(h, status, message, old, new) ==
  response' = [response EXCEPT ![h] =
     IF status = 404 THEN @
     ELSE [status |-> status, error |-> message, old_quantity |-> old,
           new_quantity |-> new]]

Respond(h, status, message, old, new) ==
  response' = [response EXCEPT ![h] =
     [status |-> status, error |-> message, old_quantity |-> old, new_quantity |-> new]]

\* The handler returned: its local variables are gone.
Return(h) ==
  /\ pc' = [pc EXCEPT ![h] = "done"]
  /\ client' = [client EXCEPT ![h] = NoClient]
  /\ currentInventory' = [currentInventory EXCEPT ![h] = 0]
  /\ newQuantity' = [newQuantity EXCEPT ![h] = NaN]
  /\ error' = [error EXCEPT ![h] = ""]

\* Mutant: the INSERT records the computed new quantity.
InsertedQuantity_computed(h) == newQuantity[h]

\* The quantity parameter of the INSERT into stock_movements: req.body.quantity.
InsertedQuantity(h) == req[h].quantity

\* The row the handler inserts into stock_movements.
MovementRow(p, mt, q, notes) ==
  [product_id |-> p, movement_type |-> mt, quantity |-> q, notes |-> notes]

\* The row as stored: id SERIAL and created_at DEFAULT CURRENT_TIMESTAMP, which
\* is the time the inserting transaction started.
Inserted(row, id, t) ==
  [id |-> id, product_id |-> row.product_id, movement_type |-> row.movement_type,
   quantity |-> row.quantity, notes |-> row.notes, created_at |-> t]

\* The columns the handler supplied.
Supplied(m) == MovementRow(m.product_id, m.movement_type, m.quantity, m.notes)

\* The request arrives; a missing field is answered 400 at once.
Arrive(h, p, q, mt) ==
  /\ req' = [req EXCEPT ![h] = [productId |-> p, quantity |-> q, movement_type |-> mt]]
  /\ IF MissingField(q, mt)
       THEN /\ Respond(h, 400, "Quantity and movement type are required", 0, 0)
            /\ Return(h)
       ELSE /\ response' = [response EXCEPT ![h] = NoResponse]
            /\ pc' = [pc EXCEPT ![h] = "connect"]
            /\ UNCHANGED locals
  /\ UNCHANGED <<db, products_id_seq, conn, faults, catalog, stock_movements_id_seq,
                 elsewhere>>

AdjustStart(h) ==
  /\ pc[h] = "idle"
  /\ \E p \in ProductIds, q \in QuantityInputs, mt \in MovementTypeInputs :
       Arrive(h, p, q, mt)

\* The inner try threw: control goes to the catch block, which rolls back.
Throw(h, message) ==
  /\ error' = [error EXCEPT ![h] = message]
  /\ pc' = [pc EXCEPT ![h] = "rollback"]

\* const client = await pool.connect()
AdjustConnect(h) ==
  /\ pc[h] = "connect"
  /\ \E fail \in FaultChoices :
       /\ Inject(fail)
       /\ IF fail
            THEN /\ Respond(h, 500, StorageMessage, 0, 0)
                 /\ Return(h)
                 /\ UNCHANGED conn
            ELSE \E c \in Conns :
                 /\ ~conn[c].busy
                 /\ conn' = [conn EXCEPT ![c].busy = TRUE]
                 /\ client' = [client EXCEPT ![h] = c]
                 /\ pc' = [pc EXCEPT ![h] = "begin"]
                 /\ UNCHANGED <<response, currentInventory, newQuantity, error>>
  /\ UNCHANGED <<db, products_id_seq, req, catalog, stock_movements_id_seq, elsewhere>>

\* await client.query('BEGIN'): the transaction starts at the clock's reading;
\* on a client whose transaction was left open it only draws a warning.
AdjustBegin(h) ==
  /\ pc[h] = "begin"
  /\ \E fail \in FaultChoices :
       /\ Inject(fail)
       /\ IF fail
            THEN /\ Throw(h, StorageMessage)
                 /\ UNCHANGED conn
            ELSE /\ conn' = [conn EXCEPT ![client[h]].inTxn = TRUE,
                                         ![client[h]].began =
                                            IF conn[client[h]].inTxn THEN @ ELSE now]
                 /\ pc' = [pc EXCEPT ![h] = "select"]
                 /\ UNCHANGED error
  /\ UNCHANGED <<db, products_id_seq, req, client, currentInventory, newQuantity,
                 response, catalog, stock_movements_id_seq, elsewhere>>

\* The SELECT of the current inventory, the 404 return (which runs only the
\* finally block: client.release(), no COMMIT and no ROLLBACK) and the switch.
AdjustSelect(h) ==
  /\ pc[h] = "select"
  /\ \E fail \in FaultChoices :
       /\ Inject(fail)
       /\ LET c == client[h]
              rows == SelectInventory(c, req[h].productId)
          IN IF fail
               THEN /\ Throw(h, StorageMessage)
                    /\ UNCHANGED <<conn, client, currentInventory, newQuantity, response>>
               ELSE IF rows = {}
               THEN /\ Respond(h, 404, "Product inventory not found", 0, 0)
                    /\ conn' = [conn EXCEPT ![c].busy = FALSE]
                    /\ Return(h)
               ELSE \E row \in rows :
                    LET r == Calculate(req[h].movement_type, row.quantity, req[h].quantity)
                    IN /\ currentInventory' = [currentInventory EXCEPT ![h] = row.quantity]
                       /\ newQuantity' = [newQuantity EXCEPT ![h] = r.value]
                       /\ IF r.throws
                            THEN Throw(h, r.message)
                            ELSE /\ pc' = [pc EXCEPT ![h] = "update"]
                                 /\ UNCHANGED error
                       /\ UNCHANGED <<conn, client, response>>
  /\ UNCHANGED <<db, products_id_seq, req, catalog, stock_movements_id_seq, elsewhere>>

\* await client.query('UPDATE inventory SET quantity = $1 ... WHERE product_id = $2')
\* The statement waits while another transaction holds the row lock; NaN is
\* refused by the INTEGER column.
AdjustUpdate(h) ==
  /\ pc[h] = "update"
  /\ ~RowLockedByOther(client[h], req[h].productId)
  /\ \E fail \in FaultChoices :
       /\ Inject(fail)
       /\ LET c == client[h]
              p == req[h].productId
          IN IF fail
               THEN /\ Throw(h, StorageMessage)
                    /\ UNCHANGED conn
               ELSE IF ~PgInteger(newQuantity[h])
               THEN /\ Throw(h, "invalid input syntax for type integer")
                    /\ UNCHANGED conn
               ELSE /\ conn' = [conn EXCEPT ![c].upd =
                          IF SelectInventory(c, p) = {} THEN {}
                          ELSE {[product_id |-> p, quantity |-> newQuantity[h].v]}]
                    /\ pc' = [pc EXCEPT ![h] = "insert"]
                    /\ UNCHANGED error
  /\ UNCHANGED <<db, products_id_seq, req, client, currentInventory, newQuantity,
                 response, catalog, stock_movements_id_seq, elsewhere>>

\* await client.query('INSERT INTO stock_movements ...') with the quantity as
\* submitted; the foreign key needs the products row.
AdjustInsert(h) ==
  /\ pc[h] = "insert"
  /\ ~DeletePendingElsewhere(client[h], req[h].productId)
  /\ \E fail \in FaultChoices :
       /\ Inject(fail)
       /\ LET c == client[h]
              p == req[h].productId
              q == InsertedQuantity(h)
          IN IF fail
               THEN /\ Throw(h, StorageMessage)
                    /\ UNCHANGED <<conn, stock_movements_id_seq>>
               ELSE IF ~PgInteger(q)
               THEN /\ Throw(h, "invalid input syntax for type integer")
                    /\ UNCHANGED <<conn, stock_movements_id_seq>>
               ELSE IF p \notin VisibleProducts(c)
               THEN /\ Throw(h, "violates foreign key constraint")
                    /\ UNCHANGED <<conn, stock_movements_id_seq>>
               ELSE /\ conn' = [conn EXCEPT ![c].ins =
                          Append(@, Inserted(MovementRow(p, req[h].movement_type, q.v, ""),
                                             stock_movements_id_seq, conn[c].began))]
                    /\ stock_movements_id_seq' = stock_movements_id_seq + 1
                    /\ pc' = [pc EXCEPT ![h] = "commit"]
                    /\ UNCHANGED error
  /\ UNCHANGED <<db, products_id_seq, req, client, currentInventory, newQuantity,
                 response, catalog, elsewhere>>

\* await client.query('COMMIT'); res.json({old_quantity, new_quantity});
\* finally client.release()
AdjustCommit(h) ==
  /\ pc[h] = "commit"
  /\ \E fail \in FaultChoices :
       /\ Inject(fail)
       /\ LET c == client[h]
          IN IF fail
               THEN /\ Throw(h, StorageMessage)
                    /\ UNCHANGED <<db, catalog, conn, response, client, currentInventory,
                                   newQuantity>>
               ELSE /\ products' = CommitProducts(c)
                    /\ inventory' = CommitInventory(c)
                    /\ stock_movements' = CommitMovements(c)
                    /\ product_fields' = CommitFields(c)
                    /\ categories' = CommitCategories(c)
                    /\ conn' = [conn EXCEPT ![c] = FreshConn]
                    /\ Respond(h, 200, "", currentInventory[h], newQuantity[h].v)
                    /\ Return(h)
  /\ UNCHANGED <<products_id_seq, req, stock_movements_id_seq, elsewhere>>

\* catch (error) { await client.query('ROLLBACK'); throw error }
\* finally client.release(); outer catch: res.status(500).json({error: error.message}).
\* When the ROLLBACK itself throws, its error is the one that reaches the outer
\* catch; the server discards the transaction of the lost connection.
AdjustRollback(h) ==
  /\ pc[h] = "rollback"
  /\ \E fail \in FaultChoices :
       /\ Inject(fail)
       /\ LET c == client[h]
          IN /\ products' = RollbackProducts(c)
             /\ inventory' = RollbackInventory(c)
             /\ stock_movements' = RollbackMovements(c)
             /\ product_fields' = RollbackFields(c)
             /\ categories' = RollbackCategories(c)
             /\ conn' = [conn EXCEPT ![c] = FreshConn]
             /\ Respond(h, 500, IF fail THEN StorageMessage ELSE error[h], 0, 0)
             /\ Return(h)
  /\ UNCHANGED <<products_id_seq, req, stock_movements_id_seq, elsewhere>>

\* ------------------------------------------------------- POST /api/products
\* One transaction on a pool client: the product, its inventory row and, when
\* initial_quantity > 0, the 'Initial stock' movement. No other request can see
\* any of it before COMMIT, so the handler is one step. failAt is the statement
\* that throws, if any; the sequence value is consumed even when rolled back.
CreateFailPoints == {"none", "begin", "product", "inventory", "movement", "commit"}

\* Mutant: product creation inserts no inventory row.
InitialInventory_none(id, iq, msl) == {}

\* INSERT INTO inventory (product_id, quantity, min_stock_level, ...): the row
\* of the new product, with quantity = initial_quantity.
InitialInventory(id, iq, msl) ==
  {[product_id |-> id, quantity |-> iq, min_stock_level |-> msl, updates |-> 0]}

\* Mutant: the 'Initial stock' movement is inserted whatever the quantity.
InitialMovement_always(id, iq, seq, t) ==
  <<Inserted(MovementRow(id, "IN", iq, "Initial stock"), seq, t)>>

\* if (initial_quantity > 0) INSERT INTO stock_movements (product_id, 'IN',
\* initial_quantity, 'Initial stock'): the rows the handler adds to the log.
InitialMovement(id, iq, seq, t) ==
  IF iq > 0
    THEN <<Inserted(MovementRow(id, "IN", iq, "Initial stock"), seq, t)>>
    ELSE <<>>

\* The time the transaction of client c started, or starts if none is open.
Began(c) == IF conn[c].inTxn THEN conn[c].began ELSE now

\* name and category_id of a created product.
NewProductNames == {"a"}
CategoryInputs == {Null} \cup CategoryIds

CreateProduct ==
  \E c \in Conns, valid \in BOOLEAN, iq \in InitialQuantities,
     msl \in MinStockLevels, failAt \in CreateFailPoints,
     name \in NewProductNames, category_id \in CategoryInputs :
    /\ ~conn[c].busy
    /\ products_id_seq \in ProductIds
    /\ failAt # "none" => faults < MaxFaults
    /\ failAt = "movement" => iq > 0
    /\ IF ~valid
         THEN UNCHANGED <<db, catalog, products_id_seq, stock_movements_id_seq, conn,
                          faults>>
         ELSE LET id == products_id_seq
                  \* products.category_id REFERENCES categories(id)
                  known == \/ category_id = Null
                           \/ \E k \in MetaView(c).categories : k.id = category_id
                  seeded == iq > 0 /\ known /\ failAt \in {"none", "commit"}
              IN /\ products_id_seq' = IF failAt = "begin" THEN id ELSE id + 1
                 /\ stock_movements_id_seq' =
                      IF seeded THEN stock_movements_id_seq + 1 ELSE stock_movements_id_seq
                 /\ conn' = [conn EXCEPT ![c] = FreshConn]
                 /\ faults' = IF failAt = "none" THEN faults ELSE faults + 1
                 /\ IF failAt = "none" /\ known
                      THEN /\ products' = CommitProducts(c) \cup {id}
                           /\ inventory' = CommitInventory(c) \cup
                                InitialInventory(id, iq, msl)
                           /\ stock_movements' = CommitMovements(c) \o
                                InitialMovement(id, iq, stock_movements_id_seq, Began(c))
                           /\ product_fields' = [CommitFields(c) EXCEPT ![id] =
                                [name |-> name, category_id |-> category_id]]
                           /\ categories' = CommitCategories(c)
                      ELSE /\ products' = RollbackProducts(c)
                           /\ inventory' = RollbackInventory(c)
                           /\ stock_movements' = RollbackMovements(c)
                           /\ product_fields' = RollbackFields(c)
                           /\ categories' = RollbackCategories(c)
    /\ UNCHANGED <<pc, req, locals, response, elsewhere>>

\* ------------------------------------------------- DELETE /api/products/:id
\* pool.query runs the DELETE on an idle client. On a client whose transaction
\* was left open the DELETE stays pending in that transaction; otherwise it
\* commits at once. inventory and stock_movements rows go with the product
\* (ON DELETE CASCADE). An absent product is answered 404 and changes nothing.
DeleteProductById(p) ==
  \E c \in Conns :
    /\ ~conn[c].busy
    /\ p \in VisibleProducts(c)
    /\ ~RowLockedByOther(c, p)
    /\ ~ReferencedByOther(c, p)
    /\ ~ProductWrittenByOther(c, p)
    /\ IF conn[c].inTxn
         THEN /\ conn' = [conn EXCEPT ![c].del = @ \cup {p}]
              /\ UNCHANGED <<db, product_fields>>
         ELSE /\ products' = products \ {p}
              /\ inventory' = {r \in inventory : r.product_id # p}
              /\ stock_movements' = SelectSeq(stock_movements, LAMBDA m : m.product_id # p)
              /\ product_fields' = [product_fields EXCEPT ![p] = NoFields]
              /\ UNCHANGED conn
    /\ UNCHANGED <<products_id_seq, pc, req, locals, response, faults, categories,
                   stock_movements_id_seq, elsewhere>>

DeleteProduct == \E p \in ProductIds : DeleteProductById(p)

\* ------------------------------------- handlers that are a single pool.query
\* A write to products or categories on the idle client c: it commits at once,
\* or stays pending when c's transaction was left open.
RunMeta(c, op) ==
  IF conn[c].inTxn
    THEN /\ Len(conn[c].meta) < MaxPending
         /\ conn' = [conn EXCEPT ![c].meta = Append(@, op)]
         /\ UNCHANGED catalog
    ELSE LET st == ApplyMeta(op, [product_fields |-> product_fields,
                                  categories |-> categories])
         IN /\ product_fields' = st.product_fields
            /\ categories' = st.categories
            /\ UNCHANGED conn

\* The category row k exists for a statement run on client c.
CategoryVisible(c, k) == \E r \in MetaView(c).categories : r.id = k

\* PUT /api/products/:id: UPDATE products SET name, category_id, ... WHERE id.
\* No row: 404. An unknown category_id violates the foreign key: 500.
UpdateProductById(p) ==
  \E c \in Conns, name \in Names, category_id \in CategoryInputs :
    /\ ~conn[c].busy
    /\ ~ProductWrittenByOther(c, p)
    /\ ~DeletePendingElsewhere(c, p)
    /\ ~CategoryWrittenByOther(c, category_id)
    /\ IF p \notin VisibleProducts(c)
         THEN UNCHANGED <<conn, catalog>>
         ELSE IF category_id # Null /\ ~CategoryVisible(c, category_id)
         THEN UNCHANGED <<conn, catalog>>
         ELSE RunMeta(c, MetaOp("UpdateProduct", p, name, category_id))
    /\ UNCHANGED <<db, products_id_seq, stock_movements_id_seq, pc, req, locals,
                   response, faults, elsewhere>>

\* POST /api/categories: INSERT INTO categories (name, description).
CreateCategory ==
  \E c \in Conns, name \in Names :
    /\ ~conn[c].busy
    /\ categories_id_seq \in CategoryIds
    /\ RunMeta(c, MetaOp("CreateCategory", categories_id_seq, name, Null))
    /\ categories_id_seq' = categories_id_seq + 1
    /\ UNCHANGED <<db, products_id_seq, stock_movements_id_seq, pc, req, locals,
                   response, faults, now>>

\* PUT /api/categories/:id: UPDATE categories SET name, description WHERE id.
UpdateCategory ==
  \E c \in Conns, k \in CategoryIds, name \in Names :
    /\ ~conn[c].busy
    /\ ~CategoryWrittenByOther(c, k)
    /\ IF ~CategoryVisible(c, k)
         THEN UNCHANGED <<conn, catalog>>
         ELSE RunMeta(c, MetaOp("UpdateCategory", k, name, Null))
    /\ UNCHANGED <<db, products_id_seq, stock_movements_id_seq, pc, req, locals,
                   response, faults, elsewhere>>

\* Mutant: products.category_id declared ON DELETE CASCADE.
DeletedWithCategory_cascade(refs) == refs

\* products.category_id REFERENCES categories(id) names no ON DELETE action:
\* of the products that reference a deleted category, none is deleted with it.
DeletedWithCategory(refs) == {}

\* DELETE /api/categories/:id: DELETE FROM categories WHERE id. No row: 404.
\* A product that references the category and stays violates the foreign key: 500.
DeleteCategory ==
  \E c \in Conns, k \in CategoryIds :
    /\ ~conn[c].busy
    /\ ~CategoryWrittenByOther(c, k)
    /\ ~CategoryReferencedByOther(c, k)
    /\ LET refs == {p \in VisibleProducts(c) : MetaView(c).product_fields[p].category_id = k}
           gone == DeletedWithCategory(refs)
       IN /\ \A p \in gone : ~RowLockedByOther(c, p) /\ ~ReferencedByOther(c, p)
          /\ IF ~CategoryVisible(c, k)
               THEN UNCHANGED <<db, conn, catalog>>
               ELSE IF refs \ gone # {}
               THEN UNCHANGED <<db, conn, catalog>>
               ELSE    IF conn[c].inTxn
                         THEN /\ Len(conn[c].meta) < MaxPending
                              /\ conn' = [conn EXCEPT
                                   ![c].meta = Append(@, MetaOp("DeleteCategory", k, "", Null)),
                                   ![c].del = @ \cup gone]
                              /\ UNCHANGED <<db, catalog>>
                         ELSE /\ products' = products \ gone
                              /\ inventory' = {r \in inventory : r.product_id \notin gone}
                              /\ stock_movements' =
                                   SelectSeq(stock_movements, LAMBDA m : m.product_id \notin gone)
                              /\ product_fields' =
                                   [p \in ProductSlots |->
                                      IF p \in gone THEN NoFields ELSE product_fields[p]]
                              /\ categories' = {r \in categories : r.id # k}
                              /\ UNCHANGED conn
    /\ UNCHANGED <<products_id_seq, stock_movements_id_seq, pc, req, locals,
                   response, faults, elsewhere>>

\* ------------------------------------------------------------ read queries
\* A query is one pool.query on an idle client c: it writes nothing, and its
\* response is one of the row sequences the statement can return on c.

\* The orders in which ORDER BY may return the rows S: every arrangement of
\* them with non-decreasing keys (rows with equal keys come in any order);
\* key maps each row to its sort key.
OrderBy(S, key) ==
  {s \in [1..Cardinality(S) -> S] :
     \A i, j \in 1..Cardinality(S) : i < j => s[i] # s[j] /\ key[s[i]] <= key[s[j]]}

\* LIMIT n
Limit(s, n) == SubSeq(s, 1, IF n < Len(s) THEN n ELSE Len(s))

\* The place of a name in ORDER BY name.
Collation(name) == CASE name = "" -> 0 [] name = "a" -> 1 [] name = "b" -> 2

\* A query parameter that is not given.
NotGiven == 0
DefaultLimit == 50
ProductFilters == {NotGiven, 1, 2}
LimitInputs == {NotGiven, 1}

ReadOnly == UNCHANGED vars

\* inventory i JOIN products p ON i.product_id = p.id, as client c sees it.
InventoryJoin(c) ==
  {[product_id |-> r.product_id, quantity |-> r.quantity,
    min_stock_level |-> r.min_stock_level,
    product_name |-> MetaView(c).product_fields[r.product_id].name]
   : r \in {x \in inventory : x.product_id \in VisibleProducts(c)}}

\* WHERE i.quantity <= i.min_stock_level
IsLowStock(r) == r.quantity <= r.min_stock_level

\* GET /api/inventory/low-stock: ... WHERE i.quantity <= i.min_stock_level
\* ORDER BY i.quantity ASC
LowStockResponses(c) ==
  OrderBy({r \in InventoryJoin(c) : IsLowStock(r)},
          [r \in InventoryJoin(c) |-> r.quantity])

ListLowStock ==
  \E c \in Conns : ~conn[c].busy /\ \E rows \in LowStockResponses(c) : ReadOnly

\* GET /api/inventory: ... ORDER BY p.name
InventoryResponses(c) ==
  OrderBy(InventoryJoin(c),
          [r \in InventoryJoin(c) |-> Collation(r.product_name)])

ListInventory ==
  \E c \in Conns : ~conn[c].busy /\ \E rows \in InventoryResponses(c) : ReadOnly

\* products p LEFT JOIN inventory i ON p.id = i.product_id, as client c sees it.
ProductJoin(c) ==
  {[id |-> p, name |-> MetaView(c).product_fields[p].name,
    category_id |-> MetaView(c).product_fields[p].category_id,
    quantity |-> {r.quantity : r \in {x \in inventory : x.product_id = p}}]
   : p \in VisibleProducts(c)}

\* GET /api/products: ... ORDER BY p.name
ProductsResponses(c) ==
  OrderBy(ProductJoin(c), [r \in ProductJoin(c) |-> Collation(r.name)])

GetProducts ==
  \E c \in Conns : ~conn[c].busy /\ \E rows \in ProductsResponses(c) : ReadOnly

\* GET /api/products/:id: the row, or 404 when there is none
ProductResponses(c, p) ==
  LET rows == {r \in ProductJoin(c) : r.id = p}
  IN IF rows = {} THEN {[status |-> 404]} ELSE rows

GetProduct ==
  \E c \in Conns, p \in RequestedProducts :
    ~conn[c].busy /\ \E row \in ProductResponses(c, p) : ReadOnly

\* GET /api/categories: SELECT * FROM categories ORDER BY name
CategoriesResponses(c) ==
  OrderBy(MetaView(c).categories,
          [r \in MetaView(c).categories |-> Collation(r.name)])

GetCategories ==
  \E c \in Conns : ~conn[c].busy /\ \E rows \in CategoriesResponses(c) : ReadOnly

\* The rows of stock_movements sm JOIN products p that client c sees, of
\* product product_id when it is given.
MovementsJoin(c, product_id) ==
  {stock_movements[i] : i \in
     {j \in 1..Len(stock_movements) :
        /\ stock_movements[j].product_id \in VisibleProducts(c)
        /\ product_id # NotGiven => stock_movements[j].product_id = product_id}}

\* GET /api/stock-movements?product_id=&limit=: ... [WHERE sm.product_id = $1]
\* ORDER BY sm.created_at DESC LIMIT $n, limit = 50 when not given
MovementsResponses(c, product_id, limit) ==
  {Limit(s, IF limit = NotGiven THEN DefaultLimit ELSE limit) :
     s \in OrderBy(MovementsJoin(c, product_id),
                  [m \in MovementsJoin(c, product_id) |-> 0 - m.created_at])}

ListMovements ==
  \E c \in Conns, product_id \in ProductFilters, limit \in LimitInputs :
    /\ ~conn[c].busy
    /\ \E rows \in MovementsResponses(c, product_id, limit) : ReadOnly

\* GET /api/dashboard/stats: four queries sent at once, each on an idle client
\* of its own.
StatsResponse(c1, c2, c3, c4) ==
  [total_products |-> Cardinality(VisibleProducts(c1)),
   total_categories |-> Cardinality(MetaView(c2).categories),
   low_stock_products |->
     Cardinality({r \in inventory : r.product_id \notin conn[c3].del /\ IsLowStock(r)}),
   total_value_rows |-> InventoryJoin(c4)]

DashboardStats ==
  \E c1, c2, c3, c4 \in Conns :
    /\ \A c \in {c1, c2, c3, c4} : ~conn[c].busy
    /\ \E stats \in {StatsResponse(c1, c2, c3, c4)} : ReadOnly

\* ---------------------------------------------------------------- the clock
\* Time passes: CURRENT_TIMESTAMP reads one more.
Tick ==
  /\ now < MaxClock
  /\ now' = now + 1
  /\ UNCHANGED <<db, catalog, conn, products_id_seq, stock_movements_id_seq, pc, req,
                 locals, response, faults, categories_id_seq>>

\* ------------------------------------------------------------ specification
InitPool == conn = [c \in Conns |-> FreshConn]

InitRequests ==
  /\ pc = [h \in Requests |-> "idle"]
  /\ req = [h \in Requests |-> NoReq]
  /\ client = [h \in Requests |-> NoClient]
  /\ currentInventory = [h \in Requests |-> 0]
  /\ newQuantity = [h \in Requests |-> NaN]
  /\ error = [h \in Requests |-> ""]
  /\ response = [h \in Requests |-> NoResponse]

\* The tables as initializeDatabase leaves them: empty.
InitTables ==
  /\ products = {}
  /\ inventory = {}
  /\ stock_movements = <<>>
  /\ products_id_seq = 1
  /\ stock_movements_id_seq = 1
  /\ product_fields = [p \in ProductSlots |-> NoFields]
  /\ categories = {}
  /\ categories_id_seq = 1

\* The clock reads 0.
InitClock == now = 0

Init == InitTables /\ InitPool /\ InitRequests /\ InitClock /\ faults = 0

Adjust(h) ==
  \/ AdjustStart(h)
  \/ AdjustConnect(h)
  \/ AdjustBegin(h)
  \/ AdjustSelect(h)
  \/ AdjustUpdate(h)
  \/ AdjustInsert(h)
  \/ AdjustCommit(h)
  \/ AdjustRollback(h)

Next ==
  \/ \E h \in Requests : Adjust(h)
  \/ CreateProduct
  \/ DeleteProduct

\* Any two requests, with storage calls that may fail.
Spec == Init /\ [][Next]_vars

\* Any two requests, with storage calls that never fail (no fault budget).
InitReliable ==
  InitTables /\ InitPool /\ InitRequests /\ InitClock /\ faults = MaxFaults
SpecReliable == InitReliable /\ [][Next]_vars

\* The concurrency scenario: product 1 was created with quantity 10, and each
\* request is an Adjust(OUT, 6) for it; storage calls never fail.
InitRace ==
  /\ products = {1}
  /\ inventory = {[product_id |-> 1, quantity |-> 10,
                   min_stock_level |-> 0, updates |-> 0]}
  /\ stock_movements = <<Inserted(MovementRow(1, "IN", 10, "Initial stock"), 1, 0)>>
  /\ products_id_seq = 2
  /\ stock_movements_id_seq = 2
  /\ product_fields = [p \in ProductSlots |-> IF p = 1 THEN [name |-> "a", category_id |-> Null]
                                                ELSE NoFields]
  /\ categories = {}
  /\ categories_id_seq = 1
  /\ InitPool /\ InitRequests /\ InitClock /\ faults = MaxFaults

RaceStart(h) ==
  /\ pc[h] = "idle"
  /\ Arrive(h, 1, Num(6), "OUT")

NextRace ==
  \E h \in Requests :
    \/ RaceStart(h)
    \/ AdjustConnect(h)
    \/ AdjustBegin(h)
    \/ AdjustSelect(h)
    \/ AdjustUpdate(h)
    \/ AdjustInsert(h)
    \/ AdjustCommit(h)
    \/ AdjustRollback(h)

SpecRace == InitRace /\ [][NextRace]_vars

\* The catalog scenario: products 1 and 2 were created at clock readings 0
\* and 1, product 1 with quantity 1, product 2 with quantity 5, both with
\* min_stock_level 2 and no category; storage calls never fail.
InitCatalog ==
  /\ products = CatalogProducts
  /\ inventory = {[product_id |-> 1, quantity |-> 1, min_stock_level |-> 2, updates |-> 0],
                  [product_id |-> 2, quantity |-> 5, min_stock_level |-> 2, updates |-> 0]}
  /\ stock_movements = <<Inserted(MovementRow(1, "IN", 1, "Initial stock"), 1, 0),
                         Inserted(MovementRow(2, "IN", 5, "Initial stock"), 2, 1)>>
  /\ products_id_seq = 3
  /\ stock_movements_id_seq = 3
  /\ product_fields = [p \in ProductSlots |->
                         [name |-> IF p = 1 THEN "a" ELSE "b", category_id |-> Null]]
  /\ categories = {}
  /\ categories_id_seq = 1
  /\ now = 2
  /\ InitPool /\ InitRequests /\ faults = MaxFaults

\* Its requests: IN 3 on product 1 or 3, next to updates of these products.
UpdatedProducts == {1, 3}

CatalogStart(h) ==
  /\ pc[h] = "idle"
  /\ \E p \in UpdatedProducts : Arrive(h, p, Num(3), "IN")

\* The requests next to the listings: IN 3 or OUT 3 on product 1, 2 or 3.
HistoryStart(h) ==
  /\ pc[h] = "idle"
  /\ \E p \in RequestedProducts, mt \in {"IN", "OUT"} : Arrive(h, p, Num(3), mt)

AdjustSteps(h) ==
  \/ AdjustConnect(h)
  \/ AdjustBegin(h)
  \/ AdjustSelect(h)
  \/ AdjustUpdate(h)
  \/ AdjustInsert(h)
  \/ AdjustCommit(h)
  \/ AdjustRollback(h)

\* The ledger next to the handlers of product and category metadata and the
\* read queries, at one reading of the clock.
NextCatalog ==
  \/ \E h \in Requests : CatalogStart(h) \/ AdjustSteps(h)
  \/ \E p \in CatalogProducts : DeleteProductById(p)
  \/ \E p \in UpdatedProducts : UpdateProductById(p)
  \/ CreateCategory
  \/ UpdateCategory
  \/ DeleteCategory
  \/ ListInventory
  \/ ListLowStock
  \/ ListMovements
  \/ GetProducts
  \/ GetProduct
  \/ GetCategories
  \/ DashboardStats

SpecCatalog == InitCatalog /\ [][NextCatalog]_vars

\* The ledger next to the two listings, with the clock running.
NextHistory ==
  \/ \E h \in Requests : HistoryStart(h) \/ AdjustSteps(h)
  \/ \E p \in CatalogProducts : DeleteProductById(p)
  \/ ListLowStock
  \/ ListMovements
  \/ Tick

SpecHistory == InitCatalog /\ [][NextHistory]_vars

\* Two requests and nothing else, on the catalog of products 1 and 2: each
\* is any movement type with quantity 3 or -2 on product 1, 2 or 3; storage
\* calls never fail.
CommuteQuantities == {Num(3), Num(-2)}
CommuteTypes == MovementTypes \cup {"TRANSFER"}

CommuteStart(h) ==
  /\ pc[h] = "idle"
  /\ \E p \in RequestedProducts, q \in CommuteQuantities, mt \in CommuteTypes :
       Arrive(h, p, q, mt)

NextCommute == \E h \in Requests : CommuteStart(h) \/ AdjustSteps(h)

SpecCommute == InitCatalog /\ [][NextCommute]_vars

\* Any two requests with storage calls that may fail, where the event loop
\* resumes a handler whose awaited storage call has settled: a step of a
\* request that stays possible is taken.
SpecLive == Init /\ [][Next]_vars /\ \A h \in Requests : WF_vars(AdjustSteps(h))

\* ------------------------------------------------------------------ claims
Succeeded(h) == pc[h] = "done" /\ response[h].status = 200

RejectedInsufficient(h) ==
  /\ pc[h] = "done"
  /\ response[h].status = 500
  /\ response[h].error = "Insufficient stock"

\* The step is h's COMMIT returning (the Adjust succeeds).
CommitsNow(h) == pc[h] = "commit" /\ pc'[h] = "done"

\* The committed quantities of product p.
Stored(p) == {r.quantity : r \in {x \in inventory : x.product_id = p}}

\* C1: in every reachable state the stored quantity of every InventoryState
\* is >= 0.
C1_QuantityNonNegative == \A r \in inventory : r.quantity >= 0

\* C2: two concurrent Adjust(OUT, 6) on a product with quantity 10: once both
\* have been answered, exactly one succeeded, the other was rejected with
\* 'Insufficient stock', and the quantity is 4; the quantity is never negative.
C2_RaceOneWinner ==
  /\ \A r \in inventory : r.quantity >= 0
  /\ (\A h \in Requests : pc[h] = "done") =>
        /\ \E w \in Requests :
              /\ Succeeded(w)
              /\ \A l \in Requests \ {w} : RejectedInsufficient(l)
        /\ Stored(1) = {4}

\* C3: Adjust calls on one product are serialized: when an Adjust commits, the
\* quantity it read (its old_quantity) is still the stored quantity, i.e. it is
\* the new_quantity of the Adjust that committed before it.
C3_Serialized ==
  [][\A h \in Requests :
       CommitsNow(h) => Stored(req[h].productId) = {currentInventory[h]}]_vars

\* C4: both-or-neither: in every committed (observable) state the number of
\* quantity updates applied to a product's row equals the number of Adjust
\* movements recorded for it, and no movement exists without its row; a failure
\* after the UPDATE was issued leaves neither.
AdjustMovements(p) ==
  Cardinality({i \in 1..Len(stock_movements) :
                 /\ stock_movements[i].product_id = p
                 /\ stock_movements[i].notes # "Initial stock"})

C4_BothOrNeither ==
  /\ \A r \in inventory : r.updates = AdjustMovements(r.product_id)
  /\ \A i \in 1..Len(stock_movements) : Stored(stock_movements[i].product_id) # {}

\* C4 witness: an Adjust whose UPDATE was issued is in its catch block (the
\* INSERT or the COMMIT failed) and the update is not visible.
C4_Witness ==
  \E h \in Requests :
    /\ pc[h] = "rollback"
    /\ conn[client[h]].upd # {}
    /\ Stored(req[h].productId) = {currentInventory[h]}
    /\ currentInventory[h] # newQuantity[h].v

\* C5: an Adjust(OUT, q) that reads a quantity c with c - q < 0 throws
\* 'Insufficient stock' without having written anything, and is answered with
\* that error; neither step changes a quantity or the movement log.
Short(h) ==
  /\ req[h].movement_type = "OUT"
  /\ req[h].quantity.t = "number"
  /\ \E r \in SelectInventory(client[h], req[h].productId) :
        r.quantity - req[h].quantity.v < 0

C5_InsufficientStockRejected ==
  [][\A h \in Requests :
       /\ (pc[h] = "select" /\ pc'[h] # "select" /\ Short(h)) =>
             /\ pc'[h] = "rollback"
             /\ error'[h] = "Insufficient stock"
             /\ conn'[client[h]].upd = {} /\ conn'[client[h]].ins = <<>>
             /\ db' = db
       /\ (pc[h] = "rollback" /\ pc'[h] # "rollback" /\ error[h] = "Insufficient stock") =>
             /\ RejectedInsufficient(h)'
             /\ db' = db]_vars

\* C5 witness: both requests were the same OUT, both were rejected, and the
\* quantity is still below the requested one.
C5_Witness ==
  /\ \A h \in Requests : RejectedInsufficient(h) /\ req[h].movement_type = "OUT"
  /\ \A g, h \in Requests : req[g] = req[h]
  /\ \E h \in Requests : \E c \in Stored(req[h].productId) : c - req[h].quantity.v < 0

\* C6: a successful Adjust that read the stored quantity c returns
\* old_quantity = c and new_quantity = n and stores n, with n = c + q for IN,
\* c - q for OUT and q for ADJUSTMENT.
Expected(mt, c, q) ==
  CASE mt = "IN" -> c + q
    [] mt = "OUT" -> c - q
    [] mt = "ADJUSTMENT" -> q

C6_OldAndNewQuantity ==
  [][\A h \in Requests :
       /\ (pc[h] = "select" /\ pc'[h] = "update") =>
             currentInventory'[h] \in Stored(req[h].productId)
       /\ CommitsNow(h) =>
             LET n == Expected(req[h].movement_type, currentInventory[h],
                               req[h].quantity.v)
             IN /\ response'[h].status = 200
                /\ response'[h].old_quantity = currentInventory[h]
                /\ response'[h].new_quantity = n
                /\ Stored(req[h].productId)' = {n}]_vars

\* C6 witness: an OUT succeeded and its new quantity is stored.
C6_Witness ==
  \E h \in Requests :
    /\ Succeeded(h)
    /\ req[h].movement_type = "OUT"
    /\ response[h].new_quantity = response[h].old_quantity - req[h].quantity.v
    /\ Stored(req[h].productId) = {response[h].new_quantity}

\* C7: a successful Adjust appends exactly one movement, with the request's
\* movement_type and its quantity as submitted; every other step of an Adjust
\* appends none.
KeptMovements(c) ==
  SelectSeq(stock_movements, LAMBDA m : m.product_id \notin conn[c].del)

C7_OneMovementAsSubmitted ==
  [][\A h \in Requests :
       /\ CommitsNow(h) =>
             /\ Len(stock_movements') = Len(KeptMovements(client[h])) + 1
             /\ SubSeq(stock_movements', 1, Len(stock_movements') - 1) =
                   KeptMovements(client[h])
             /\ Supplied(stock_movements'[Len(stock_movements')]) =
                   [product_id |-> req[h].productId,
                    movement_type |-> req[h].movement_type,
                    quantity |-> req[h].quantity.v,
                    notes |-> ""]
       /\ (pc'[h] # pc[h] /\ ~CommitsNow(h)) =>
             Len(stock_movements') <= Len(stock_movements)]_vars

\* C7 witness: the last movement is the one of a successful IN or OUT whose
\* submitted quantity differs from the new quantity.
C7_Witness ==
  \E h \in Requests :
    /\ Succeeded(h)
    /\ req[h].movement_type \in {"IN", "OUT"}
    /\ response[h].new_quantity # req[h].quantity.v
    /\ Len(stock_movements) > 0
    /\ stock_movements[Len(stock_movements)].quantity = req[h].quantity.v
    /\ stock_movements[Len(stock_movements)].movement_type = req[h].movement_type

\* C8: an Adjust with a movement_type that is provided but is none of IN, OUT,
\* ADJUSTMENT is answered 400. (A 404 for a product without InventoryState is
\* let pass, so that the violation shown is that of the type check itself.)
C8_UnknownTypeIsInvalidRequest ==
  \A h \in Requests :
    (pc[h] = "done" /\ req[h].movement_type \notin MovementTypes \cup {NoType})
       => response[h].status \in {400, 404}

C10_BadQuantityIsInvalidRequest ==
  \A h \in Requests :
    (/\ pc[h] = "done"
     /\ req[h].quantity.t \in {"undefined", "string"}
     /\ req[h].movement_type \in MovementTypes)
       => response[h].status \in {400, 404}

\* C11: the failure kinds of Adjust are answered with distinct statuses: a
\* request rejected with 'Insufficient stock' and a request that failed with a
\* storage error never carry the same status.
C11_DistinctFailureStatus ==
  \A g, h \in Requests :
    (/\ pc[g] = "done" /\ response[g].error = "Insufficient stock"
     /\ pc[h] = "done" /\ response[h].error = StorageMessage)
       => response[g].status # response[h].status

\* C12: the movement log is append-only: every step of the system leaves the
\* committed movements in place, so the log before the step is a prefix of the
\* log after it.
C12_AppendOnly ==
  [][/\ Len(stock_movements') >= Len(stock_movements)
     /\ SubSeq(stock_movements', 1, Len(stock_movements)) = stock_movements]_vars

\* C13: each existing product has exactly one InventoryState and every
\* InventoryState belongs to an existing product; an InventoryState appears
\* only in the step that creates its product, holding the initial quantity
\* (the one the 'Initial stock' movement records, when it is positive), and
\* disappears only in a step that removes its product.
InventoryOf(p) == {r \in inventory : r.product_id = p}

MovementsOf(p) == SelectSeq(stock_movements, LAMBDA m : m.product_id = p)

C13_OneInventoryPerProduct ==
  [][/\ \A p \in products' : Cardinality(InventoryOf(p)') = 1
     /\ \A r \in inventory' : r.product_id \in products'
     /\ \A p \in ProductIds :
          /\ (InventoryOf(p) = {} /\ InventoryOf(p)' # {}) =>
                /\ p \notin products /\ p \in products'
                /\ \A r \in InventoryOf(p)' :
                      /\ r.quantity \in InitialQuantities
                      /\ r.updates = 0
                      /\ Len(MovementsOf(p)') = IF r.quantity > 0 THEN 1 ELSE 0
                      /\ \A i \in 1..Len(MovementsOf(p)') :
                            Supplied(MovementsOf(p)'[i]) =
                              MovementRow(p, "IN", r.quantity, "Initial stock")
          /\ (InventoryOf(p) # {} /\ InventoryOf(p)' = {}) =>
                p \in products /\ p \notin products']_vars

\* C13 witness: a product exists whose one InventoryState was created with a
\* positive quantity and has since been adjusted.
C13_Witness ==
  \E p \in products :
    /\ Cardinality(InventoryOf(p)) = 1
    /\ \E r \in InventoryOf(p) : r.updates > 0
    /\ Len(MovementsOf(p)) > 1
    /\ MovementsOf(p)[1].notes = "Initial stock"

\* C14: the stored quantity of every product equals the replay of its
\* movement records in commit order from 0: IN adds its quantity, OUT
\* subtracts it, ADJUSTMENT sets the value.
RECURSIVE Replay(_, _)
Replay(ms, acc) ==
  IF ms = <<>> THEN acc
  ELSE Replay(Tail(ms), Expected(Head(ms).movement_type, acc, Head(ms).quantity))

C14_ReplayGivesQuantity ==
  \A r \in inventory : r.quantity = Replay(MovementsOf(r.product_id), 0)

\* C18: no client is in the pool (released) with a transaction still open:
\* every Adjust that began a transaction ended it with COMMIT or ROLLBACK
\* before client.release().
C18_ReleasedWithoutOpenTransaction ==
  \A c \in Conns : ~conn[c].busy => ~conn[c].inTxn

\* C19 (as stated): an Adjust on an existing product with a recognized
\* movement type and a quantity that is zero or negative is not answered 400.
NonPositive(h) ==
  /\ req[h].movement_type \in MovementTypes
  /\ req[h].quantity.t = "number"
  /\ req[h].quantity.v <= 0

Negative(h) == NonPositive(h) /\ req[h].quantity.v < 0

C15_AdjustFrame ==
  [][\A h \in Requests, p \in RequestedProducts :
       (pc'[h] # pc[h] /\ req'[h].productId = p) =>
         /\ \A o \in ProductSlots \ {p} :
               /\ InventoryOf(o)' = InventoryOf(o)
               /\ MovementsOf(o)' = MovementsOf(o)
         /\ products' = products
         /\ product_fields' = product_fields
         /\ categories' = categories
         /\ \A r \in InventoryOf(p) :
               \E n \in InventoryOf(p)' : n.min_stock_level = r.min_stock_level]_vars

\* C16: every response of ListLowStock lists exactly the committed
\* InventoryState rows of existing products with quantity <= min_stock_level,
\* each once, in non-decreasing order of quantity; being true in every
\* reachable state, it follows every committed Adjust.
LowStockExpected ==
  {[product_id |-> r.product_id, quantity |-> r.quantity]
   : r \in {x \in inventory :
              x.product_id \in products /\ x.quantity <= x.min_stock_level}}

C16_LowStockListing ==
  \A c \in Conns :
    ~conn[c].busy =>
      \A rows \in LowStockResponses(c) :
        /\ {[product_id |-> rows[i].product_id, quantity |-> rows[i].quantity]
            : i \in 1..Len(rows)} = LowStockExpected
        /\ Len(rows) = Cardinality(LowStockExpected)
        /\ \A i, j \in 1..Len(rows) : i < j => rows[i].quantity <= rows[j].quantity

\* C17: every response of ListMovements(product_id, limit) has at most limit
\* records (50 when no limit is given), all of the given product when one is
\* given, newest first in the order (created_at, id), and they are the most
\* recently committed matching records. (Responses on a client whose open
\* transaction holds a pending DELETE are left aside, so that the violation
\* shown is that of the listing itself.)
Matching(product_id) ==
  SelectSeq(stock_movements,
            LAMBDA m : product_id = NotGiven \/ m.product_id = product_id)

LastCommitted(product_id, n) ==
  {Matching(product_id)[i] :
     i \in (Len(Matching(product_id)) - n + 1)..Len(Matching(product_id))}

Newer(a, b) ==
  \/ a.created_at > b.created_at
  \/ a.created_at = b.created_at /\ a.id > b.id

C17_MovementsListing ==
  \A c \in Conns, product_id \in ProductFilters, limit \in LimitInputs :
    (~conn[c].busy /\ conn[c].del = {}) =>
      \A rows \in MovementsResponses(c, product_id, limit) :
        LET cap == IF limit = NotGiven THEN 50 ELSE limit
            all == Len(Matching(product_id))
        IN /\ Len(rows) = IF all < cap THEN all ELSE cap
           /\ \A i \in 1..Len(rows) :
                 product_id # NotGiven => rows[i].product_id = product_id
           /\ \A i, j \in 1..Len(rows) : i < j => Newer(rows[i], rows[j])
           /\ {rows[i] : i \in 1..Len(rows)} = LastCommitted(product_id, Len(rows))

\* C20: the quantity of an existing InventoryState changes only in the COMMIT
\* of an Adjust on that product; a product update, a category create, update
\* or delete and every read query leave inventory and the movement log as
\* they are.
MetadataStep ==
  \/ \E p \in UpdatedProducts : UpdateProductById(p)
  \/ CreateCategory
  \/ UpdateCategory
  \/ DeleteCategory

ReadStep ==
  \/ ListInventory
  \/ ListLowStock
  \/ ListMovements
  \/ GetProducts
  \/ GetProduct
  \/ GetCategories
  \/ DashboardStats

C20_OnlyAdjustChangesQuantity ==
  [][/\ \A p \in ProductSlots :
          (Stored(p) # {} /\ Stored(p)' # {} /\ Stored(p)' # Stored(p)) =>
             \E h \in Requests : CommitsNow(h) /\ req[h].productId = p
     /\ (MetadataStep \/ ReadStep) =>
          inventory' = inventory /\ stock_movements' = stock_movements]_vars

\* C20 witness: product 1 was renamed and put into a category that exists,
\* and its quantity was changed by an Adjust.
C20_Witness ==
  /\ product_fields[1] = [name |-> "b", category_id |-> 1]
  /\ \E k \in categories : k.id = 1
  /\ \E r \in InventoryOf(1) : r.updates > 0 /\ r.quantity = 4

\* The handler run alone, from BEGIN to its response, on the inventory rows
\* inv: its response, the rows it leaves and the movement it records.
AdjustAlone(inv, r) ==
  LET rows == {x \in inv : x.product_id = r.productId}
      row == CHOOSE x \in rows : TRUE
      calc == Calculate(r.movement_type, row.quantity, r.quantity)
      failed(status, message) ==
        [response |-> [status |-> status, error |-> message,
                       old_quantity |-> 0, new_quantity |-> 0],
         inventory |-> inv, movements |-> <<>>]
  IN IF MissingField(r.quantity, r.movement_type)
       THEN failed(400, "Quantity and movement type are required")
     ELSE IF rows = {} THEN failed(404, "Product inventory not found")
     ELSE IF calc.throws THEN failed(500, calc.message)
     ELSE IF ~PgInteger(calc.value) \/ ~PgInteger(r.quantity)
       THEN failed(500, "invalid input syntax for type integer")
     ELSE [response |-> [status |-> 200, error |-> "",
                         old_quantity |-> row.quantity, new_quantity |-> calc.value.v],
           inventory |-> {IF x.product_id = r.productId
                            THEN [x EXCEPT !.quantity = calc.value.v, !.updates = @ + 1]
                            ELSE x : x \in inv},
           movements |-> <<MovementRow(r.productId, r.movement_type, r.quantity.v, "")>>]

\* First request a alone, then request b alone, on the rows inv.
OneAfterTheOther(inv, a, b) ==
  LET first == AdjustAlone(inv, req[a])
      second == AdjustAlone(first.inventory, req[b])
  IN [response |-> (a :> first.response) @@ (b :> second.response),
      inventory |-> second.inventory,
      movements |-> first.movements \o second.movements]

\* The inventory rows and the movements of the catalog before the requests.
CatalogInventory ==
  {[product_id |-> 1, quantity |-> 1, min_stock_level |-> 2, updates |-> 0],
   [product_id |-> 2, quantity |-> 5, min_stock_level |-> 2, updates |-> 0]}

\* The movements of product p recorded by the requests, as submitted.
Recorded(log, p) ==
  SelectSeq(log, LAMBDA m : m.product_id = p /\ m.notes # "Initial stock")

\* The state agrees with the serial run s: responses, rows of inventory, and
\* per product the movements recorded.
SameAs(s) ==
  /\ \A h \in Requests : response[h] = s.response[h]
  /\ inventory = s.inventory
  /\ \A p \in RequestedProducts :
       Recorded([i \in 1..Len(stock_movements) |-> Supplied(stock_movements[i])], p)
         = Recorded(s.movements, p)

\* C21: two Adjust requests on distinct products commute: once both have been
\* answered, whatever the interleaving of their storage steps, the responses,
\* the quantities and the movements recorded are those of running the first
\* request and then the second, and those of running the second and then the
\* first.
C21_DistinctProductsCommute ==
  ((\A h \in Requests : pc[h] = "done") /\ req["r1"].productId # req["r2"].productId)
    => /\ SameAs(OneAfterTheOther(CatalogInventory, "r1", "r2"))
       /\ SameAs(OneAfterTheOther(CatalogInventory, "r2", "r1"))

\* C21 witness: requests on products 1 and 2 both succeeded, and the one that
\* inserted its movement first committed last (their steps were interleaved).
C21_Witness ==
  /\ \A h \in Requests : Succeeded(h)
  /\ req["r1"].productId # req["r2"].productId
  /\ Len(stock_movements) = 4
  /\ stock_movements[3].id > stock_movements[4].id

\* C22: product creation is atomic and seeds the ledger. A step that makes
\* product p exist leaves exactly one InventoryState of p, never updated,
\* with the initial quantity q, and as movements of p one IN of q noted
\* 'Initial stock' when q > 0 and none when q <= 0; as long as p does not
\* exist, which is also how a creation that failed at any of its statements
\* leaves it, p has no InventoryState and no movement, committed or pending.
Pending(c, p) ==
  \/ \E u \in conn[c].upd : u.product_id = p
  \/ \E i \in 1..Len(conn[c].ins) : conn[c].ins[i].product_id = p

C22_CreateProductAtomic ==
  [][\A p \in ProductIds :
       /\ (p \notin products /\ p \in products') =>
            \E q \in InitialQuantities :
              /\ {[product_id |-> r.product_id, quantity |-> r.quantity,
                   updates |-> r.updates] : r \in InventoryOf(p)'}
                   = {[product_id |-> p, quantity |-> q, updates |-> 0]}
              /\ [i \in 1..Len(MovementsOf(p)') |-> Supplied(MovementsOf(p)'[i])]
                   = IF q > 0 THEN <<MovementRow(p, "IN", q, "Initial stock")>>
                              ELSE <<>>
       /\ p \notin products' =>
            /\ InventoryOf(p)' = {}
            /\ MovementsOf(p)' = <<>>
            /\ \A c \in Conns : ~conn'[c].busy => ~Pending(c, p)']_vars

\* C22 witness: a creation with a positive initial quantity ran all three
\* inserts (both sequences advanced), its COMMIT failed, and afterwards there
\* is no product, no InventoryState and no movement.
C22_Witness ==
  /\ \A h \in Requests : pc[h] = "idle"
  /\ faults = 1
  /\ products_id_seq = 2
  /\ stock_movements_id_seq = 2
  /\ products = {} /\ inventory = {} /\ stock_movements = <<>>

\* The storage call request h awaits cannot return yet: pool.connect() with
\* every client checked out, the UPDATE or the INSERT behind a row lock of
\* another open transaction.
Waiting(h) ==
  \/ pc[h] = "connect" /\ \A c \in Conns : conn[c].busy
  \/ pc[h] = "update" /\ RowLockedByOther(client[h], req[h].productId)
  \/ pc[h] = "insert" /\ DeletePendingElsewhere(client[h], req[h].productId)

Answered(h) == pc[h] = "done" /\ response[h].status # 0

\* C23: every Adjust request gets exactly one response. A response is sent
\* only in the step in which the handler returns, to a request not yet
\* answered; a handler that returned has sent one; and, unless one of its
\* storage calls never returns, a request that arrived is eventually answered.
C23_ExactlyOneResponse ==
  /\ [][\A h \in Requests :
          response'[h] # response[h] =>
             /\ response[h] = NoResponse
             /\ pc[h] # "done" /\ pc'[h] = "done"]_vars
  /\ [](\A h \in Requests : pc[h] = "done" => response[h].status # 0)
  /\ \A h \in Requests :
       (<>[]Waiting(h)) \/ ((pc[h] # "idle") ~> Answered(h))

\* C23 witness: an OUT request on a product with quantity 0 met a storage
\* failure (of one of its calls, or of the ROLLBACK after the stock rule
\* rejected it) and was answered 500 with the failure's message.
C23_Witness ==
  \E h \in Requests :
    /\ pc[h] = "done"
    /\ req[h].movement_type = "OUT"
    /\ response[h].status = 500
    /\ response[h].error = StorageMessage
    /\ products = {1} /\ inventory # {}
    /\ \A r \in inventory : r.quantity = 0 /\ r.updates = 0

====
